---- MODULE Spec2Model ----
(***************************************************************************)
(* Model of peg-game-solver.py: the triangular peg-solitaire solver.       *)
(*                                                                         *)
(* Positions are numbered top to bottom, left to right, from 0.  A board   *)
(* is a function from positions to BOOLEAN (TRUE = peg).  A move is the    *)
(* triple <<src, jumped, dest>>, so m[1], m[2], m[3] are Python's m[0],    *)
(* m[1], m[2].  The networkx graph is the record                           *)
(*   [nodes : set of nodes, level : node -> row, adj : node -> sequence],  *)
(* where adj[u] lists the neighbours of u in insertion order, which is     *)
(* the order graph.neighbors(u) iterates in.                               *)
(***************************************************************************)
EXTENDS Integers, Sequences, FiniteSets, TLC

VARIABLES
    n_rows,             \* main: n_rows (argv[1])
    triangle_graph,     \* main: triangle_graph
    board_state,        \* the board handed to the top-level solve call
    stack,              \* the call stack of solve: one frame per active call
    retval,             \* value returned by the call that just ended
    SEEN,               \* global SEEN
    FINAL_MOVE_LIST,    \* global FINAL_MOVE_LIST
    N_MOVES,            \* global N_MOVES
    pc,                 \* position of the caller of solve
    i, j,               \* main: the loop variables of the start positions
    moves, new_bs,      \* get_valid_moves' result and the board after a move
    first               \* what the first of two calls returned

vars == <<n_rows, triangle_graph, board_state, stack, retval, SEEN,
          FINAL_MOVE_LIST, N_MOVES, pc, i, j, moves, new_bs, first>>

(***************************************************************************)
(* Program constants and bounds of the model.                              *)
(***************************************************************************)
MinRows == 4
MaxRows == 6
\* Starting boards other than the driver's hold at most MaxPegs pegs,
\* or (for the move generator alone) at most MaxHoles holes.
MaxPegs == 4
MaxHoles == 2

Range(s) == {s[k] : k \in DOMAIN s}

triangular_number(n) == (n * (n + 1)) \div 2

(***************************************************************************)
(* generate_triangle_graph                                                 *)
(***************************************************************************)
\* nx.Graph() followed by add_node(i) for i in range(vertices)
NewGraph(vertices) ==
    [nodes |-> 0 .. (vertices - 1),
     level |-> [v \in {} |-> 0],
     adj   |-> [v \in 0 .. (vertices - 1) |-> <<>>]]

\* add_edge creates a missing endpoint
AddNode(g, v) ==
    IF v \in g.nodes THEN g
    ELSE [g EXCEPT !.nodes = @ \cup {v}, !.adj = @ @@ (v :> <<>>)]

\* adj[u][v] = ...: a neighbour already present keeps its place
AddNeighbor(g, u, v) ==
    [g EXCEPT !.adj[u] = IF v \in Range(@) THEN @ ELSE Append(@, v)]

add_edge(g, u, v) ==
    AddNeighbor(AddNeighbor(AddNode(AddNode(g, u), v), u, v), v, u)

CurrentNode(r, c) == (r * (r + 1)) \div 2 + c

\* variant of BottomLeft: one node too near
BottomLeftWrong(cur, r) == cur + r
BottomLeft(cur, r) == cur + r + 1

\* variant of BottomRight: one node too far
BottomRightWrong(cur, r) == cur + r + 3
BottomRight(cur, r) == cur + r + 2

RightNode(cur) == cur + 1

\* the body of the inner loop, for node (r, c).  graph.nodes[current_node]
\* is a node of the graph (a KeyError otherwise, which ends the program)
VisitNode(g, n, r, c) ==
    LET cur == CurrentNode(r, c)
        g1  == [g EXCEPT !.level = (cur :> r) @@ @]
        g2  == IF r < n - 1
               THEN add_edge(add_edge(g1, cur, BottomLeft(cur, r)),
                             cur, BottomRight(cur, r))
               ELSE g1
    IN  IF cur \notin g.nodes THEN g
        ELSE IF c < r THEN add_edge(g2, cur, RightNode(cur)) ELSE g2

RECURSIVE RowLoop(_, _, _, _)
RowLoop(g, n, r, c) ==
    IF c >= r + 1 THEN g ELSE RowLoop(VisitNode(g, n, r, c), n, r, c + 1)

RECURSIVE LevelLoop(_, _, _)
LevelLoop(g, n, r) ==
    IF r >= n THEN g ELSE LevelLoop(RowLoop(g, n, r, 0), n, r + 1)

generate_triangle_graph(n) == LevelLoop(NewGraph(triangular_number(n)), n, 0)

neighbors(graph, v) == graph.adj[v]

(***************************************************************************)
(* get_valid_moves                                                         *)
(***************************************************************************)
HasPeg(bs, p) == bs[p]

\* lines 95-98: the hole the peg lands in
JumpDest(graph, src, mid) ==
    IF graph.level[src] # graph.level[mid]
    THEN (2 * mid) - src + 1
    ELSE (2 * mid) - src

\* line 101: dest is a neighbour of mid
DestValid(graph, mid, dest) == dest \in Range(neighbors(graph, mid))

\* line 105: dest is a neighbour of src (the move is dropped)
\* variant of DestNextToSrc: the test left out
DestNextToSrcNever(graph, src, dest) == FALSE
DestNextToSrc(graph, src, dest) == dest \in Range(neighbors(graph, src))

\* line 109: a horizontal jump that leaves its level (the move is dropped)
LeavesLevel(graph, src, mid, dest) ==
    /\ graph.level[src] = graph.level[mid]
    /\ graph.level[mid] # graph.level[dest]

\* line 113: dest holds a peg (the move is dropped)
\* variant of DestHasPeg: the test left out
DestHasPegNever(bs, dest) == FALSE
DestHasPeg(bs, dest) == bs[dest]

\* the body of the loop over the neighbours of src: no move or one move
MoveOver(graph, bs, src, mid) ==
    LET dest == JumpDest(graph, src, mid)
    IN  IF mid = src THEN <<>>
        ELSE IF ~HasPeg(bs, mid) THEN <<>>
        ELSE IF ~DestValid(graph, mid, dest) THEN <<>>
        ELSE IF DestNextToSrc(graph, src, dest) THEN <<>>
        ELSE IF LeavesLevel(graph, src, mid, dest) THEN <<>>
        ELSE IF DestHasPeg(bs, dest) THEN <<>>
        ELSE << <<src, mid, dest>> >>

RECURSIVE MidLoop(_, _, _, _)
MidLoop(graph, bs, src, k) ==
    IF k > Len(neighbors(graph, src)) THEN <<>>
    ELSE MoveOver(graph, bs, src, neighbors(graph, src)[k])
         \o MidLoop(graph, bs, src, k + 1)

RECURSIVE SrcLoop(_, _, _)
SrcLoop(graph, bs, src) ==
    IF src >= Cardinality(graph.nodes) THEN <<>>
    ELSE (IF HasPeg(bs, src) THEN MidLoop(graph, bs, src, 1) ELSE <<>>)
         \o SrcLoop(graph, bs, src + 1)

get_valid_moves(graph, bs) == SrcLoop(graph, bs, 0)

(***************************************************************************)
(* solve.  Each active call is a frame [bs, moves, k, pc]: bs is the       *)
(* call's board, moves its list of valid moves, k the index of the move    *)
(* the for loop is at, and pc is "entry" (line 135), "loop" (line 146) or  *)
(* "wait" (line 165, inside the recursive call).                           *)
(***************************************************************************)
Count(bs) == Cardinality({p \in DOMAIN bs : bs[p]})

\* variants of IsSolved: another number of pegs
IsSolvedNoPeg(bs) == Count(bs) = 0
IsSolvedTwoPegs(bs) == Count(bs) <= 2
\* line 136
IsSolved(bs) == Count(bs) = 1

\* variant of make_move: the jumped peg stays
make_move_keep_jumped(bs, m) == [bs EXCEPT ![m[1]] = FALSE, ![m[3]] = TRUE]
\* lines 148-153
make_move(bs, m) ==
    [bs EXCEPT ![m[1]] = FALSE, ![m[2]] = FALSE, ![m[3]] = TRUE]

\* line 156: ''.join(['1' if x else '0' for x in new_bs])
RECURSIVE JoinFrom(_, _)
JoinFrom(bs, p) ==
    IF p >= Cardinality(DOMAIN bs) THEN ""
    ELSE (IF bs[p] THEN "1" ELSE "0") \o JoinFrom(bs, p + 1)

\* variant of bs_hash: the first two positions are left out
bs_hash_from_third(bs) == JoinFrom(bs, 2)
bs_hash(bs) == JoinFrom(bs, 0)

\* variant of Pop: nothing is removed
PopKeep(path) == path
\* line 168
Pop(path) == SubSeq(path, 1, Len(path) - 1)

\* variant of Frame: the loop starts at the second move
FrameFromSecond(bs) == [bs |-> bs, moves |-> <<>>, k |-> 2, pc |-> "entry"]
\* a call of solve(graph, bs) before its first statement
Frame(bs) == [bs |-> bs, moves |-> <<>>, k |-> 1, pc |-> "entry"]

Top == stack[Len(stack)]
Callers == SubSeq(stack, 1, Len(stack) - 1)
SetTop(f) == [stack EXCEPT ![Len(stack)] = f]

\* lines 135-143: the call starts
SolveEntry ==
    /\ stack # <<>>
    /\ Top.pc = "entry"
    /\ IF IsSolved(Top.bs)
       THEN /\ stack' = Callers
            /\ retval' = "True"
       ELSE LET ms == get_valid_moves(triangle_graph, Top.bs)
            IN  IF Len(ms) = 0
                THEN /\ stack' = Callers
                     /\ retval' = "False"
                ELSE /\ stack' = SetTop([Top EXCEPT !.moves = ms, !.pc = "loop"])
                     /\ retval' = retval
    /\ UNCHANGED <<n_rows, triangle_graph, board_state, SEEN, FINAL_MOVE_LIST,
                   N_MOVES, pc, i, j, moves, new_bs, first>>

\* variant of SeenAdd: the board is not recorded
SeenAddNothing(seen, h) == seen
\* line 162: SEEN.add(bs_hash)
SeenAdd(seen, h) == seen \cup {h}

\* variant of SolveTryMove: the move is applied to the caller's board
\* itself, new_bs = bs in place of new_bs = bs.copy()
SolveTryMoveInPlace ==
    /\ stack # <<>>
    /\ Top.pc = "loop"
    /\ Top.k <= Len(Top.moves)
    /\ LET m  == Top.moves[Top.k]
           nb == make_move(Top.bs, m)
           h  == bs_hash(nb)
       IN  /\ N_MOVES' = N_MOVES + 1
           /\ IF h \in SEEN
              THEN /\ stack' = SetTop([Top EXCEPT !.k = @ + 1, !.bs = nb])
                   /\ UNCHANGED <<SEEN, FINAL_MOVE_LIST>>
              ELSE /\ SEEN' = SeenAdd(SEEN, h)
                   /\ FINAL_MOVE_LIST' = Append(FINAL_MOVE_LIST, m)
                   /\ stack' = Append(SetTop([Top EXCEPT !.pc = "wait",
                                                         !.bs = nb]),
                                      Frame(nb))
    /\ UNCHANGED <<n_rows, triangle_graph, board_state, retval, pc, i, j,
                   moves, new_bs, first>>

\* lines 146-165: one iteration of the for loop, up to the recursive call
SolveTryMove ==
    /\ stack # <<>>
    /\ Top.pc = "loop"
    /\ Top.k <= Len(Top.moves)
    /\ LET m  == Top.moves[Top.k]
           nb == make_move(Top.bs, m)
           h  == bs_hash(nb)
       IN  /\ N_MOVES' = N_MOVES + 1
           /\ IF h \in SEEN
              THEN /\ stack' = SetTop([Top EXCEPT !.k = @ + 1])
                   /\ UNCHANGED <<SEEN, FINAL_MOVE_LIST>>
              ELSE /\ SEEN' = SeenAdd(SEEN, h)
                   /\ FINAL_MOVE_LIST' = Append(FINAL_MOVE_LIST, m)
                   /\ stack' = Append(SetTop([Top EXCEPT !.pc = "wait"]),
                                      Frame(nb))
    /\ UNCHANGED <<n_rows, triangle_graph, board_state, retval, pc, i, j,
                   moves, new_bs, first>>

\* variant of SolveResume: a failed recursive call ends the caller's loop
SolveResumeGiveUp ==
    /\ stack # <<>>
    /\ Top.pc = "wait"
    /\ retval # "none"
    /\ stack' = Callers
    /\ FINAL_MOVE_LIST' =
          IF retval = "True" THEN FINAL_MOVE_LIST ELSE Pop(FINAL_MOVE_LIST)
    /\ UNCHANGED <<n_rows, triangle_graph, board_state, retval, SEEN, N_MOVES,
                   pc, i, j, moves, new_bs, first>>

\* lines 165-168: the recursive call has returned
SolveResume ==
    /\ stack # <<>>
    /\ Top.pc = "wait"
    /\ retval # "none"
    /\ IF retval = "True"
       THEN /\ stack' = Callers
            /\ UNCHANGED <<retval, FINAL_MOVE_LIST>>
       ELSE /\ FINAL_MOVE_LIST' = Pop(FINAL_MOVE_LIST)
            /\ stack' = SetTop([Top EXCEPT !.k = @ + 1, !.pc = "loop"])
            /\ retval' = "none"
    /\ UNCHANGED <<n_rows, triangle_graph, board_state, SEEN, N_MOVES, pc,
                   i, j, moves, new_bs, first>>

\* line 171: the moves are used up
SolveExhausted ==
    /\ stack # <<>>
    /\ Top.pc = "loop"
    /\ Top.k > Len(Top.moves)
    /\ stack' = Callers
    /\ retval' = "False"
    /\ UNCHANGED <<n_rows, triangle_graph, board_state, SEEN, FINAL_MOVE_LIST,
                   N_MOVES, pc, i, j, moves, new_bs, first>>

Solve == SolveEntry \/ SolveTryMove \/ SolveResume \/ SolveExhausted

NoCall == [result |-> "none", path |-> <<>>]
NoBoard == <<>>

(***************************************************************************)
(* main: the driver of the program.                                        *)
(***************************************************************************)
\* lines 207-220
MainInit ==
    /\ n_rows \in MinRows .. MaxRows
    /\ triangle_graph = generate_triangle_graph(n_rows)
    /\ FINAL_MOVE_LIST = <<>>
    /\ N_MOVES = 0
    /\ SEEN = {}
    /\ i = 0
    /\ j = 0
    /\ pc = "main_loop"
    /\ board_state = NoBoard
    /\ stack = <<>>
    /\ retval = "none"
    /\ moves = <<>>
    /\ new_bs = NoBoard
    /\ first = NoCall

\* lines 231-232
StartBoard(graph, hole) ==
    [p \in 0 .. (Cardinality(graph.nodes) - 1) |-> p # hole]

\* lines 227-235: remove the peg of the start position and call solve
MainTry ==
    /\ pc = "main_loop"
    /\ board_state' = StartBoard(triangle_graph, CurrentNode(i, j))
    /\ stack' = <<Frame(board_state')>>
    /\ pc' = "main_solving"
    /\ UNCHANGED <<n_rows, triangle_graph, retval, SEEN, FINAL_MOVE_LIST,
                   N_MOVES, i, j, moves, new_bs, first>>

\* variant of RowCount: the middle row is left out
RowCountShort(n) == n \div 2
\* line 225: range((n_rows // 2) + 1)
RowCount(n) == (n \div 2) + 1
\* line 226: range(((i + 1) // 2) + 1)
ColCount(r) == ((r + 1) \div 2) + 1

\* lines 225-227: the start positions that the two loops go through
Candidates(n) ==
    UNION {{CurrentNode(r, c) : c \in 0 .. (ColCount(r) - 1)} :
              r \in 0 .. (RowCount(n) - 1)}

\* lines 235-244 and the loop headers of lines 225-226
MainReturned ==
    /\ pc = "main_solving"
    /\ stack = <<>>
    /\ retval # "none"
    /\ retval' = "none"
    /\ IF retval = "True"
       THEN /\ pc' = "exit_solved"
            /\ UNCHANGED <<i, j>>
       ELSE IF j + 1 < ColCount(i)
       THEN /\ pc' = "main_loop"
            /\ j' = j + 1
            /\ i' = i
       ELSE IF i + 1 < RowCount(n_rows)
       THEN /\ pc' = "main_loop"
            /\ j' = 0
            /\ i' = i + 1
       ELSE /\ pc' = "exit_unable"
            /\ UNCHANGED <<i, j>>
    /\ UNCHANGED <<n_rows, triangle_graph, board_state, stack, SEEN,
                   FINAL_MOVE_LIST, N_MOVES, moves, new_bs, first>>

Next == MainTry \/ MainReturned \/ Solve

Spec == MainInit /\ [][Next]_vars

(***************************************************************************)
(* The driver, where the call of solve for a start can be made over from   *)
(* the globals as lines 207-209 set them, to be compared with the call     *)
(* the driver made.                                                        *)
(***************************************************************************)
\* the driver's call has returned: solve(triangle_graph, board_state) with
\* FINAL_MOVE_LIST = [], N_MOVES = 0, SEEN = set() (lines 207-209, 235)
ReferenceCall ==
    /\ pc = "main_solving"
    /\ stack = <<>>
    /\ retval # "none"
    /\ first' = [result |-> retval, path |-> FINAL_MOVE_LIST, seen |-> SEEN]
    /\ FINAL_MOVE_LIST' = <<>>
    /\ N_MOVES' = 0
    /\ SEEN' = {}
    /\ retval' = "none"
    /\ stack' = <<Frame(board_state)>>
    /\ pc' = "reference_solving"
    /\ UNCHANGED <<n_rows, triangle_graph, board_state, i, j, moves, new_bs>>

\* the call made over has returned
ReferenceReturned ==
    /\ pc = "reference_solving"
    /\ stack = <<>>
    /\ retval # "none"
    /\ pc' = "compared"
    /\ UNCHANGED <<n_rows, triangle_graph, board_state, stack, retval, SEEN,
                   FINAL_MOVE_LIST, N_MOVES, i, j, moves, new_bs, first>>

NextCarry == MainTry \/ MainReturned \/ Solve \/ ReferenceCall \/ ReferenceReturned

SpecCarry == MainInit /\ [][NextCarry]_vars

(***************************************************************************)
(* solve called on any starting board, from the globals as main sets them  *)
(* (lines 207-209), and called a second time on the same board.            *)
(***************************************************************************)
Positions(n) == 0 .. (triangular_number(n) - 1)

BoardOf(n, pegs) == [p \in Positions(n) |-> p \in pegs]

RECURSIVE SetsUpTo(_, _)
SetsUpTo(S, k) ==
    IF k = 0 THEN {{}}
    ELSE LET smaller == SetsUpTo(S, k - 1)
         IN  smaller \cup {s \cup {x} : s \in smaller, x \in S}

\* boards with few pegs, and the boards of the driver: one peg removed
StartBoards(n) ==
    {BoardOf(n, s) : s \in SetsUpTo(Positions(n), MaxPegs)}
    \cup {BoardOf(n, Positions(n) \ {h}) : h \in Positions(n)}

\* boards with few pegs, and boards with few holes
MoveBoards(n) ==
    {BoardOf(n, s) : s \in SetsUpTo(Positions(n), MaxPegs)}
    \cup {BoardOf(n, Positions(n) \ s) : s \in SetsUpTo(Positions(n), MaxHoles)}

CallInit ==
    /\ n_rows \in MinRows .. MaxRows
    /\ triangle_graph = generate_triangle_graph(n_rows)
    /\ board_state \in StartBoards(n_rows)
    /\ FINAL_MOVE_LIST = <<>>
    /\ N_MOVES = 0
    /\ SEEN = {}
    /\ i = 0
    /\ j = 0
    /\ pc = "call"
    /\ stack = <<>>
    /\ retval = "none"
    /\ moves = <<>>
    /\ new_bs = NoBoard
    /\ first = NoCall

\* solve(triangle_graph, board_state)
CallSolve ==
    /\ pc = "call"
    /\ stack' = <<Frame(board_state)>>
    /\ pc' = "in_solve"
    /\ UNCHANGED <<n_rows, triangle_graph, board_state, retval, SEEN,
                   FINAL_MOVE_LIST, N_MOVES, i, j, moves, new_bs, first>>

\* the top-level call has returned
CallReturned ==
    /\ pc = "in_solve"
    /\ stack = <<>>
    /\ retval # "none"
    /\ pc' = "returned"
    /\ UNCHANGED <<n_rows, triangle_graph, board_state, stack, retval, SEEN,
                   FINAL_MOVE_LIST, N_MOVES, i, j, moves, new_bs, first>>

\* solve(triangle_graph, board_state) once more, in the same process
CallAgain ==
    /\ pc = "returned"
    /\ first = NoCall
    /\ first' = [result |-> retval, path |-> FINAL_MOVE_LIST]
    /\ retval' = "none"
    /\ stack' = <<Frame(board_state)>>
    /\ pc' = "in_solve"
    /\ UNCHANGED <<n_rows, triangle_graph, board_state, SEEN,
                   FINAL_MOVE_LIST, N_MOVES, i, j, moves, new_bs>>

NextSolve == CallSolve \/ CallReturned \/ Solve

SpecSolve == CallInit /\ [][NextSolve]_vars

\* the interpreter runs its one thread on: a step that can be taken is taken
SpecSolveFair == SpecSolve /\ WF_vars(NextSolve)

NextTwice == CallSolve \/ CallReturned \/ CallAgain \/ Solve

SpecTwice == CallInit /\ [][NextTwice]_vars

(***************************************************************************)
(* get_valid_moves and the move of lines 148-153 applied to any board.     *)
(***************************************************************************)
MovesInit ==
    /\ n_rows \in MinRows .. MaxRows
    /\ triangle_graph = generate_triangle_graph(n_rows)
    /\ board_state \in MoveBoards(n_rows)
    /\ FINAL_MOVE_LIST = <<>>
    /\ N_MOVES = 0
    /\ SEEN = {}
    /\ i = 0
    /\ j = 0
    /\ pc = "moves_input"
    /\ stack = <<>>
    /\ retval = "none"
    /\ moves = <<>>
    /\ new_bs = NoBoard
    /\ first = NoCall

\* line 139
GetValidMoves ==
    /\ pc = "moves_input"
    /\ moves' = get_valid_moves(triangle_graph, board_state)
    /\ pc' = "moves_generated"
    /\ UNCHANGED <<n_rows, triangle_graph, board_state, stack, retval, SEEN,
                   FINAL_MOVE_LIST, N_MOVES, i, j, new_bs, first>>

\* lines 148-153, for the move moves[k]; j keeps k
MakeMove ==
    /\ pc = "moves_generated"
    /\ \E k \in 1 .. Len(moves) :
          /\ new_bs' = make_move(board_state, moves[k])
          /\ j' = k
    /\ pc' = "moves_applied"
    /\ UNCHANGED <<n_rows, triangle_graph, board_state, stack, retval, SEEN,
                   FINAL_MOVE_LIST, N_MOVES, i, moves, first>>

NextMoves == GetValidMoves \/ MakeMove

SpecMoves == MovesInit /\ [][NextMoves]_vars

(***************************************************************************)
(* The game itself, in (row, column) coordinates: what the claims compare  *)
(* the program with.                                                       *)
(***************************************************************************)
RowOf(p) ==
    CHOOSE r \in 0 .. MaxRows + MaxRows :
        triangular_number(r) <= p /\ p < triangular_number(r + 1)

ColOf(p) == p - triangular_number(RowOf(p))

OnBoard(n, r, c) == 0 <= r /\ r < n /\ 0 <= c /\ c <= r

IndexOf(r, c) == triangular_number(r) + c

Directions == {<<0, 1>>, <<0, -1>>, <<1, 0>>, <<1, 1>>, <<-1, 0>>, <<-1, -1>>}

\* the jump from p in direction d, when all of it is on the board
JumpsFrom(n, p) ==
    LET r == RowOf(p)
        c == ColOf(p)
    IN  {<<p, IndexOf(r + d[1], c + d[2]), IndexOf(r + 2 * d[1], c + 2 * d[2])>> :
            d \in {e \in Directions :
                      /\ OnBoard(n, r + e[1], c + e[2])
                      /\ OnBoard(n, r + 2 * e[1], c + 2 * e[2])}}

LatticeJumps(n) == UNION {JumpsFrom(n, p) : p \in Positions(n)}

LegalJumps(n, bs) ==
    {m \in LatticeJumps(n) : bs[m[1]] /\ bs[m[2]] /\ ~bs[m[3]]}

Jumped(bs, m) ==
    [p \in DOMAIN bs |->
        IF p = m[3] THEN TRUE ELSE IF p \in {m[1], m[2]} THEN FALSE ELSE bs[p]]

\* every move of path from its k-th is a legal jump, and one peg is left
RECURSIVE ReplayWins(_, _, _, _)
ReplayWins(n, bs, path, k) ==
    IF k > Len(path) THEN Count(bs) = 1
    ELSE /\ path[k] \in LegalJumps(n, bs)
         /\ ReplayWins(n, Jumped(bs, path[k]), path, k + 1)

\* the boards that legal jumps reach
RECURSIVE ReachFrom(_, _, _)
ReachFrom(n, done, frontier) ==
    IF frontier = {} THEN done
    ELSE LET all  == done \cup frontier
             next == UNION {{Jumped(b, m) : m \in LegalJumps(n, b)} : b \in frontier}
         IN  ReachFrom(n, all, next \ all)

Solvable(n, bs) == \E b \in ReachFrom(n, {}, {bs}) : Count(b) = 1

AllBut(n, hole) == BoardOf(n, Positions(n) \ {hole})

(***************************************************************************)
(* The claims.                                                             *)
(***************************************************************************)

\* C1: when solve reports success, the moves of FINAL_MOVE_LIST replayed in
\* order from the starting board are each a legal jump of the game on the
\* board they are applied to, and the last board holds exactly one peg.
C1_SolveSound ==
    (pc = "returned" /\ retval = "True")
        => ReplayWins(n_rows, board_state, FINAL_MOVE_LIST, 1)

\* a success found after backtracking, from a board of the driver
C1_Witness ==
    /\ pc = "returned"
    /\ retval = "True"
    /\ Len(FINAL_MOVE_LIST) >= 8
    /\ Cardinality(SEEN) > Len(FINAL_MOVE_LIST)

\* C2: solve reports failure for a starting board only when no sequence of
\* legal jumps from that board reaches a board with exactly one peg.
C2_SolveComplete ==
    (pc = "returned" /\ retval = "False")
        => ~Solvable(n_rows, board_state)

\* a failure in which moves were skipped because their board was in SEEN
C2_Witness ==
    /\ pc = "returned"
    /\ retval = "False"
    /\ Cardinality(SEEN) >= 10
    /\ N_MOVES > Cardinality(SEEN)

\* C3: a second call of solve with the same graph and board, in the same
\* process, returns the result and the move path of the first call.
C3_Deterministic ==
    (pc = "returned" /\ first # NoCall)
        => (retval = first.result /\ FINAL_MOVE_LIST = first.path)

\* C4: at the start of every top-level call of solve made by the driver the
\* visited-state set is empty.
C4_SeenEmptyAtCall ==
    (pc = "main_solving" /\ Len(stack) = 1 /\ stack[1].pc = "entry")
        => SEEN = {}

\* C5: a top-level call of solve on a board with exactly one peg returns
\* success in its first step, adds nothing to the visited-state set, tries
\* no move, and leaves the move path empty.
C5_OnePegImmediate ==
    [][(/\ pc = "in_solve"
        /\ Len(stack) = 1
        /\ stack[1].pc = "entry"
        /\ Count(stack[1].bs) = 1)
         => (/\ stack' = <<>>
             /\ retval' = "True"
             /\ SEEN = {}
             /\ SEEN' = {}
             /\ N_MOVES' = N_MOVES
             /\ FINAL_MOVE_LIST' = <<>>)]_vars

\* solve has returned success on a one-peg board, with an empty path
C5_Witness ==
    /\ pc = "returned"
    /\ Count(board_state) = 1
    /\ retval = "True"
    /\ FINAL_MOVE_LIST = <<>>

\* C6: every move get_valid_moves returns has its three positions on the
\* board, src and jumped holding pegs and dest empty in the input board.
C6_MovesLegal ==
    pc \in {"moves_generated", "moves_applied"}
        => \A k \in 1 .. Len(moves) :
              /\ moves[k][1] \in DOMAIN board_state
              /\ moves[k][2] \in DOMAIN board_state
              /\ moves[k][3] \in DOMAIN board_state
              /\ moves[k][3] >= 0
              /\ moves[k][3] < triangular_number(n_rows)
              /\ board_state[moves[k][1]]
              /\ board_state[moves[k][2]]
              /\ ~board_state[moves[k][3]]

\* several moves generated on a six-row board that holds a peg at a dest
\* of a lattice jump over two pegs
C6_Witness ==
    /\ pc = "moves_generated"
    /\ n_rows = MaxRows
    /\ Len(moves) >= 2
    /\ \E m \in LatticeJumps(n_rows) :
          board_state[m[1]] /\ board_state[m[2]] /\ board_state[m[3]]

\* C7: a generated move applied to the board it was generated from gives a
\* board of the same length with exactly one peg fewer, and its src, jumped
\* and dest are three distinct positions.
C7_OnePegFewer ==
    pc = "moves_applied"
        => /\ DOMAIN new_bs = DOMAIN board_state
           /\ Count(new_bs) = Count(board_state) - 1
           /\ Cardinality({moves[j][1], moves[j][2], moves[j][3]}) = 3

\* a move applied to a board with few holes
C7_Witness ==
    /\ pc = "moves_applied"
    /\ Count(board_state) >= triangular_number(n_rows) - MaxHoles
    /\ Count(new_bs) = Count(board_state) - 1

\* C8: the graph has exactly T(n) nodes, every node carries the row index
\* of its row-major position, and the rows of the two ends of every edge
\* differ by at most 1.
C8_GraphShape ==
    /\ Cardinality(triangle_graph.nodes) = triangular_number(n_rows)
    /\ triangle_graph.nodes = Positions(n_rows)
    /\ DOMAIN triangle_graph.level = triangle_graph.nodes
    /\ \A v \in triangle_graph.nodes : triangle_graph.level[v] = RowOf(v)
    /\ \A u \in triangle_graph.nodes :
          \A v \in Range(neighbors(triangle_graph, u)) :
              /\ v \in triangle_graph.nodes
              /\ triangle_graph.level[u] - triangle_graph.level[v] \in {-1, 0, 1}

\* the six-row graph, with an edge inside a row and an edge between rows
C8_Witness ==
    /\ n_rows = MaxRows
    /\ Cardinality(triangle_graph.nodes) = 21
    /\ \E u \in triangle_graph.nodes :
          /\ \E v \in Range(neighbors(triangle_graph, u)) :
                triangle_graph.level[v] = triangle_graph.level[u]
          /\ \E v \in Range(neighbors(triangle_graph, u)) :
                triangle_graph.level[v] = triangle_graph.level[u] + 1

\* C9: for n = 4 with only position 0 empty, solve reports success with a
\* path of exactly 8 moves or reports no solution, and reports success
\* exactly if a one-peg board can be reached; and whenever solve reports
\* success from a board with k pegs the path has exactly k - 1 moves.
C9_PathLength ==
    pc = "returned"
        => /\ retval = "True"
                => Len(FINAL_MOVE_LIST) = Count(board_state) - 1
           /\ (n_rows = 4 /\ board_state = AllBut(4, 0))
                => /\ retval \in {"True", "False"}
                   /\ retval = "True" => Len(FINAL_MOVE_LIST) = 8
                   /\ (retval = "True") <=> Solvable(4, board_state)

\* the scenario: four rows, position 0 empty, solve has returned
C9_Witness ==
    /\ pc = "returned"
    /\ n_rows = 4
    /\ board_state = AllBut(4, 0)
    /\ Count(board_state) = 9
    /\ N_MOVES > 0

\* C10: the set of moves get_valid_moves returns is the set of the jumps of
\* the triangular lattice (src, src + d, src + 2d on the board, for the six
\* directions d) whose src and jumped hold pegs and whose dest is empty.
C10_MovesExact ==
    pc \in {"moves_generated", "moves_applied"}
        => Range(moves) = LegalJumps(n_rows, board_state)

\* moves generated on a board where the triple (4, 2, 1) has pegs at 4 and
\* 2 and a hole at 1
C10_Witness ==
    /\ pc = "moves_generated"
    /\ board_state[4]
    /\ board_state[2]
    /\ ~board_state[1]
    /\ Len(moves) >= 1

\* the positions that touch u on the triangular lattice: left and right in
\* its row, (r + 1, c) and (r + 1, c + 1) below, and the inverses above
LatticeNeighbours(n, u) ==
    LET r == RowOf(u)
        c == ColOf(u)
    IN  {IndexOf(r + d[1], c + d[2]) :
            d \in {e \in Directions : OnBoard(n, r + e[1], c + e[2])}}

\* C11: the graph is exactly the adjacency of the triangular lattice: two
\* positions are neighbours iff they touch on the lattice; the relation is
\* symmetric, without self-loops, has no node outside 0 .. T(n)-1, and no
\* node has more than 6 neighbours.
C11_GraphIsLattice ==
    /\ triangle_graph.nodes = Positions(n_rows)
    /\ DOMAIN triangle_graph.adj = Positions(n_rows)
    /\ \A u \in Positions(n_rows) :
          /\ Range(neighbors(triangle_graph, u)) = LatticeNeighbours(n_rows, u)
          /\ LatticeNeighbours(n_rows, u) \subseteq Positions(n_rows)
          /\ u \notin Range(neighbors(triangle_graph, u))
          /\ Len(neighbors(triangle_graph, u)) <= 6
          /\ Len(neighbors(triangle_graph, u)) =
                Cardinality(Range(neighbors(triangle_graph, u)))
          /\ \A v \in Range(neighbors(triangle_graph, u)) :
                u \in Range(neighbors(triangle_graph, v))

\* the six-row graph, where the inner node 4 has its six neighbours and
\* the corner 0 has two
C11_Witness ==
    /\ n_rows = MaxRows
    /\ Range(neighbors(triangle_graph, 4)) = {1, 2, 3, 5, 7, 8}
    /\ Range(neighbors(triangle_graph, 0)) = {1, 2}

\* a step of solve that makes the recursive call
Recursing == stack # <<>> /\ Len(stack') = Len(stack) + 1

\* the board the loop of the running frame is about to try
NextBoard == make_move(Top.bs, Top.moves[Top.k])

\* C12: within one top-level call every board is recursed into at most
\* once: the visited set never loses an encoding, an encoding is added
\* exactly in the step that recurses into its board, that board was not in
\* the set before, and a move whose board is in the set already is skipped
\* without a recursive call and without touching the path.
C12_VisitOnce ==
    [][ /\ SEEN \subseteq SEEN'
        /\ SEEN' # SEEN => Recursing
        /\ Recursing =>
              LET callee == stack'[Len(stack')].bs
              IN  /\ callee = NextBoard
                  /\ bs_hash(callee) \notin SEEN
                  /\ SEEN' = SEEN \cup {bs_hash(callee)}
                  /\ FINAL_MOVE_LIST' =
                        Append(FINAL_MOVE_LIST, Top.moves[Top.k])
        /\ ( /\ stack # <<>>
             /\ Top.pc = "loop"
             /\ Top.k <= Len(Top.moves)
             /\ bs_hash(NextBoard) \in SEEN )
           => /\ Len(stack') = Len(stack)
              /\ stack'[Len(stack')].k = Top.k + 1
              /\ stack'[Len(stack')].pc = "loop"
              /\ SEEN' = SEEN
              /\ FINAL_MOVE_LIST' = FINAL_MOVE_LIST
      ]_vars

\* three calls deep, with a board at hand that is in the visited set
C12_Witness ==
    /\ pc = "in_solve"
    /\ Len(stack) >= 3
    /\ Top.pc = "loop"
    /\ Top.k <= Len(Top.moves)
    /\ bs_hash(NextBoard) \in SEEN

\* the place of move m in the list ms of the generator
IndexIn(ms, m) == CHOOSE x \in 1 .. Len(ms) : ms[x] = m

\* the boards of the moves that the generator lists before the move taken,
\* at every step of path from its k-th
RECURSIVE PassedOver(_, _, _, _)
PassedOver(graph, bs, path, k) ==
    IF k > Len(path) THEN {}
    ELSE LET ms == get_valid_moves(graph, bs)
             x  == IndexIn(ms, path[k])
         IN  {Jumped(bs, ms[y]) : y \in 1 .. x - 1}
             \cup PassedOver(graph, Jumped(bs, path[k]), path, k + 1)

\* every move of path from its k-th is in the list of the generator
RECURSIVE Generated(_, _, _, _)
Generated(graph, bs, path, k) ==
    IF k > Len(path) THEN TRUE
    ELSE /\ path[k] \in Range(get_valid_moves(graph, bs))
         /\ Generated(graph, Jumped(bs, path[k]), path, k + 1)

\* C13: the path returned is the first successful one in the order of the
\* generator: at every step of it, each move listed before the move taken
\* leads to a board from which no one-peg board can be reached; and once a
\* recursive call has reported success its caller tries no further move and
\* passes the success on.
C13_FirstFound ==
    /\ []( (pc = "returned" /\ retval = "True") =>
             /\ Generated(triangle_graph, board_state, FINAL_MOVE_LIST, 1)
             /\ \A b \in ReachFrom(n_rows, {},
                           PassedOver(triangle_graph, board_state,
                                      FINAL_MOVE_LIST, 1)) :
                   Count(b) # 1 )
    /\ [][ (stack # <<>> /\ retval = "True") =>
             /\ stack' = Callers
             /\ retval' = "True"
             /\ N_MOVES' = N_MOVES
             /\ SEEN' = SEEN
             /\ FINAL_MOVE_LIST' = FINAL_MOVE_LIST
         ]_vars

\* a success from a board of the driver whose path passes over moves that
\* the generator lists earlier
C13_Witness ==
    /\ pc = "returned"
    /\ retval = "True"
    /\ Len(FINAL_MOVE_LIST) >= 8
    /\ Cardinality(PassedOver(triangle_graph, board_state,
                              FINAL_MOVE_LIST, 1)) >= 5

\* C14: at every call frame of a search in progress, the moves on the path
\* plus the pegs on the frame's board are the pegs of the starting board:
\* the frame at depth d was entered with d - 1 moves on the path, and the
\* running frame sees exactly those; hence, from a board that holds a peg,
\* the recursion is never deeper than the starting pegs less one, which is
\* at most T(n) - 1, and the path never holds more than T(n) moves.
C14_PegsPlusMoves ==
    pc = "in_solve" =>
       /\ \A d \in 1 .. Len(stack) :
             (d - 1) + Count(stack[d].bs) = Count(board_state)
       /\ (stack # <<>> /\ retval = "none") =>
             Len(FINAL_MOVE_LIST) + Count(Top.bs) = Count(board_state)
       /\ Count(board_state) >= 1 =>
             Len(stack) - 1 <= Count(board_state) - 1
       /\ Count(board_state) - 1 <= triangular_number(n_rows) - 1
       /\ Len(FINAL_MOVE_LIST) <= triangular_number(n_rows)

\* the deepest call from a board with one hole: one frame per peg
C14_Witness ==
    /\ pc = "in_solve"
    /\ Count(board_state) = triangular_number(n_rows) - 1
    /\ Len(stack) = Count(board_state)
    /\ Top.pc = "entry"
    /\ Len(FINAL_MOVE_LIST) = Count(board_state) - 1

\* C15: a call of solve at depth d is entered with d - 1 moves on the path;
\* no step taken while it is on the call stack changes those moves, and
\* when it returns failure the path is exactly those moves again.  So after
\* the driver's call for one start has failed the path is empty when the
\* next start is searched, and a solution reported is a winning sequence
\* of jumps from the start that succeeded.
C15_PathRestored ==
    /\ [][ stack # <<>> =>
             LET d == Len(stack)
             IN  /\ Len(FINAL_MOVE_LIST) >= d - 1
                 /\ Len(FINAL_MOVE_LIST') >= d - 1
                 /\ SubSeq(FINAL_MOVE_LIST', 1, d - 1) =
                       SubSeq(FINAL_MOVE_LIST, 1, d - 1)
                 /\ (Len(stack') < d /\ retval' = "False") =>
                       FINAL_MOVE_LIST' = SubSeq(FINAL_MOVE_LIST, 1, d - 1)
         ]_vars
    /\ [](pc = "main_loop" => FINAL_MOVE_LIST = <<>>)
    /\ [](pc = "exit_solved" =>
             ReplayWins(n_rows, board_state, FINAL_MOVE_LIST, 1))

\* a solution reported for the second start, after the first start failed
C15_Witness ==
    /\ pc = "exit_solved"
    /\ i = 1
    /\ SEEN # {}
    /\ N_MOVES > Cardinality(SEEN)
    /\ Len(FINAL_MOVE_LIST) = Count(board_state) - 1

\* C16: solve never changes the board it was given: every frame that stays
\* on the call stack keeps its board through every step, so each move of a
\* frame is applied to the same parent board and a caller finds its board
\* as it was when the call returns; the callee's board is the parent's
\* board after the jump; the board of the top-level call is the caller's
\* board_state, which no step of solve changes; and every board has one
\* entry for each position.
C16_BoardUntouched ==
    /\ [][ /\ \A d \in 1 .. Len(stack) :
                d <= Len(stack') => stack'[d].bs = stack[d].bs
           /\ stack # <<>> => board_state' = board_state
           /\ Recursing =>
                stack'[Len(stack')].bs = Jumped(Top.bs, Top.moves[Top.k])
         ]_vars
    /\ [](stack # <<>> => stack[1].bs = board_state)
    /\ [](\A d \in 1 .. Len(stack) :
             DOMAIN stack[d].bs = Positions(n_rows))

\* a recursive call for a later move of its caller, whose earlier moves
\* were applied before
C16_Witness ==
    /\ pc = "in_solve"
    /\ Len(stack) >= 3
    /\ Top.pc = "entry"
    /\ stack[Len(stack) - 1].k >= 3
    /\ stack[1].k >= 2
    /\ stack[1].bs = board_state

\* C17: solve terminates from every starting board: the top-level call
\* returns in the end; every recursive call is on a board with fewer pegs
\* than its caller's; and a search that fails has by then recursed into
\* every board that legal jumps reach from the starting board.
C17_Terminates ==
    /\ <>(pc = "returned")
    /\ [](\A d \in 2 .. Len(stack) :
             Count(stack[d].bs) < Count(stack[d - 1].bs))
    /\ []((pc = "returned" /\ retval = "False") =>
             SEEN = {bs_hash(b) :
                        b \in ReachFrom(n_rows, {}, {board_state})
                              \ {board_state}})

\* a search that failed after it went through more than 40 boards
C17_Witness ==
    /\ pc = "returned"
    /\ retval = "False"
    /\ Cardinality(SEEN) > 40
    /\ N_MOVES > Cardinality(SEEN)

\* the triangle turned by a third of a turn, and mirrored in its axis
Rotate(n, p) == IndexOf((n - 1) - RowOf(p) + ColOf(p), (n - 1) - RowOf(p))
Reflect(p) == IndexOf(RowOf(p), RowOf(p) - ColOf(p))

\* where the six rotations and reflections of the triangle take p
Images(n, p) ==
    LET turns == {p, Rotate(n, p), Rotate(n, Rotate(n, p))}
    IN  turns \cup {Reflect(q) : q \in turns}

\* C18: the start positions of the driver cover every position up to the
\* symmetry of the triangle: a rotation or reflection takes every position
\* to one of them, where the rotation and the reflection are one-to-one on
\* the positions and keep the neighbours of the graph.  Every start the
\* driver searches is one of them.  On the four-row board, where it can be
\* computed, a start that can be solved has a symmetric start among them
\* that can be solved; and the driver ends without a solution only if no
\* board with a single hole can be solved.
C18_StartsCover ==
    /\ \A p \in Positions(n_rows) :
          /\ Images(n_rows, p) \cap Candidates(n_rows) # {}
          /\ Rotate(n_rows, p) \in Positions(n_rows)
          /\ Rotate(n_rows, Rotate(n_rows, Rotate(n_rows, p))) = p
          /\ Reflect(p) \in Positions(n_rows)
          /\ Reflect(Reflect(p)) = p
          /\ Range(neighbors(triangle_graph, Rotate(n_rows, p))) =
                {Rotate(n_rows, q) : q \in Range(neighbors(triangle_graph, p))}
          /\ Range(neighbors(triangle_graph, Reflect(p))) =
                {Reflect(q) : q \in Range(neighbors(triangle_graph, p))}
    /\ Candidates(n_rows) \subseteq Positions(n_rows)
    /\ pc = "main_solving" =>
          /\ CurrentNode(i, j) \in Candidates(n_rows)
          /\ board_state = AllBut(n_rows, CurrentNode(i, j))
    /\ (n_rows = MinRows /\ pc = "main_loop") =>
          \A p \in Positions(n_rows) :
             Solvable(n_rows, AllBut(n_rows, p)) =>
                \E c \in Images(n_rows, p) \cap Candidates(n_rows) :
                   Solvable(n_rows, AllBut(n_rows, c))
    /\ pc = "exit_unable" =>
          \A p \in Positions(n_rows) : ~Solvable(n_rows, AllBut(n_rows, p))

\* the driver on the six-row board, which has eight start positions for
\* five classes of positions, searching the first of them
C18_Witness ==
    /\ n_rows = MaxRows
    /\ pc = "main_solving"
    /\ Candidates(n_rows) = {0, 1, 2, 3, 4, 6, 7, 8}
    /\ Images(n_rows, 19) = {1, 2, 10, 14, 16, 19}
    /\ board_state = AllBut(n_rows, 0)

\* C19: the visited set that the driver carries from one start to the next
\* changes no outcome: for every start the driver searches, the call it
\* makes, with the set as the earlier starts left it, returns the result
\* and leaves the move path of the same call made with an empty set.
C19_CarryHarmless ==
    pc = "compared" =>
       /\ retval = first.result
       /\ FINAL_MOVE_LIST = first.path

\* the second start of the four-row board, solved by the driver with the
\* 41 boards of the failed first start in the visited set, and solved again
\* from an empty set
C19_Witness ==
    /\ pc = "compared"
    /\ n_rows = MinRows
    /\ i = 1
    /\ retval = "True"
    /\ Len(FINAL_MOVE_LIST) = 8
    /\ Cardinality(first.seen) >= Cardinality(SEEN) + 41

====
